---- MODULE Spec2Model ----
(***************************************************************************)
(* Duty-log aggregation, timeline drawing, compliance summary and PDF      *)
(* export of the hos-app frontend.                                         *)
(*                                                                         *)
(* Two screens share this module:                                          *)
(*   - App (App.js) with LogCanvas, DaySummarySidebar and                  *)
(*     ComplianceSummary: the planner-driven log sheets;                   *)
(*   - MapWithLogs (MapComponent.js): the interactive log planner.         *)
(*                                                                         *)
(* Units.  A Date is its number of minutes after 2025-11-01T00:00Z, or NaN *)
(* for an Invalid Date.  Hour totals of LogCanvas are kept in minutes      *)
(* (hours * 60); numbers printed with toFixed(1) are tenths of an hour.    *)
(* The planner's trip_summary hours are tenths of an hour.  A canvas x of  *)
(* LogCanvas is kept as the minute of the day it stands for                *)
(* (x = minute / 1440 * width).  Hours of MapWithLogs are thousandths of   *)
(* an hour (x * 24 for a canvas 1000 wide).                                *)
(***************************************************************************)
EXTENDS Integers, Sequences, FiniteSets, TLC

\* ---------------------------------------------------------------- bounds
MaxPlans == 2      \* planner requests issued by App
MaxClicks == 2     \* clicks on the log canvases of LogCanvas
MaxExports == 1    \* documents saved by LogCanvas
MaxActs == 2       \* activities of the day a planner result brings (SpecAgg)
MaxRoutes == 2     \* route requests issued by MapWithLogs
MaxStrokes == 2    \* mouse-downs on the canvases of MapWithLogs
MaxTicks == 2      \* timer ticks of the tracker
MaxReports == 2    \* documents saved by both screens together (SpecExport)
MaxClock == 2      \* seconds the clock advances

\* ------------------------------------------------------------- numbers
\* The marker of an IEEE NaN (an Invalid Date's time value, and what
\* arithmetic on it gives).
NaN == -999999

IsNaN(x) == x = NaN

NumAdd(a, b) == IF IsNaN(a) \/ IsNaN(b) THEN NaN ELSE a + b

NumSub(a, b) == IF IsNaN(a) \/ IsNaN(b) THEN NaN ELSE a - b

\* Number.prototype.toFixed(1) of m / 60, as tenths.
ToFixed1(m) ==
  IF IsNaN(m) THEN NaN
  ELSE IF m >= 0 THEN (m * 10 + 30) \div 60
  ELSE -(((-m) * 10 + 30) \div 60)

MinutesPerDay == 24 * 60

\* The 70 hours of the cycle, in tenths.
CycleLimit == 700

\* ------------------------------------------------------------- statuses
DutyStatus == {"OffDuty", "Sleeper", "Driving", "OnDuty"}

\* statusY[a.status] || statusY.OffDuty
statusY(status) ==
  CASE status = "OffDuty" -> 162
    [] status = "Sleeper" -> 122
    [] status = "Driving" -> 84
    [] status = "OnDuty" -> 46
    [] OTHER -> 162

\* colors[a.status] || "#000"
colors(status) ==
  CASE status = "OffDuty" -> "#66cc66"
    [] status = "Sleeper" -> "#9966ff"
    [] status = "Driving" -> "#1E90FF"
    [] status = "OnDuty" -> "#FFA500"
    [] OTHER -> "#000"

\* ---------------------------------------------------------- aggregation
RECURSIVE SumDurations(_, _)
\* reduce((sum, a) => sum + (new Date(a.end) - new Date(a.start)) / 3600000, 0)
\* continued from the running sum.
SumDurations(acts, sum) ==
  IF acts = <<>> THEN sum
  ELSE SumDurations(Tail(acts), NumAdd(sum, NumSub(Head(acts).end, Head(acts).start)))

RECURSIVE SumClamped(_, _)
SumClamped(acts, sum) ==
  IF acts = <<>> THEN sum
  ELSE LET d == NumSub(Head(acts).end, Head(acts).start)
       IN  SumClamped(Tail(acts), NumAdd(sum, IF IsNaN(d) \/ d >= 0 THEN d ELSE 0))

\* calcTotalHours with each duration clamped at zero, as MapWithLogs sums.
calcTotalHoursClamped(activities, status) ==
  SumClamped(SelectSeq(activities, LAMBDA a: a.status = status), 0)

\* LogCanvas.calcTotalHours: filter by status, then reduce from 0.
calcTotalHours(activities, status) ==
  SumDurations(SelectSeq(activities, LAMBDA a: a.status = status), 0)

\* DaySummarySidebar's calcHours, the same computation.
calcHours(activities, status) ==
  SumDurations(SelectSeq(activities, LAMBDA a: a.status = status), 0)

\* ------------------------------------------------------------- drawing
\* getUTCHours() + getUTCMinutes() / 60 of a Date, as the minute of the day.
UTCHours(t) == IF IsNaN(t) THEN NaN ELSE t % MinutesPerDay

\* The line drawCanvas strokes for one activity: moveTo(xStart, y),
\* lineTo(xEnd, y) in the status's colour.
Stroke(a) ==
  [xStart |-> UTCHours(a.start), xEnd |-> UTCHours(a.end),
   y |-> statusY(a.status), strokeStyle |-> colors(a.status)]

RECURSIVE drawCanvas(_)
\* LogCanvas's drawCanvas: the canvas is cleared and one line is stroked per
\* activity, in order.  A moveTo or lineTo with a NaN coordinate is ignored by
\* the 2D context, so such an activity leaves no line.
drawCanvas(dayActivities) ==
  IF dayActivities = <<>> THEN <<>>
  ELSE LET s == Stroke(Head(dayActivities))
       IN  (IF IsNaN(s.xStart) \/ IsNaN(s.xEnd) THEN <<>> ELSE <<s>>)
             \o drawCanvas(Tail(dayActivities))

\* ---------------------------------------------------- planner responses
W70 == "Exceeds 70-hour/8-day on-duty limit"

Act(status, start, end) == [status |-> status, start |-> start, end |-> end]

Day(date, activities) == [date |-> date, activities |-> activities]

DayOverlap ==
  Day("2025-11-01", <<Act("Driving", 60, 180), Act("Driving", 120, 240)>>)

DayMidnight ==
  Day("2025-11-02", <<Act("OnDuty", 1380, 1500), Act("Driving", 0, 120)>>)

DayFuel ==
  Day("2025-11-03", <<Act("OffDuty", 0, 600), Act("Fuel", 600, 630)>>)

DayReversed == Day("2025-11-04", <<Act("Driving", 300, 240)>>)

DayEmpty == Day("2025-11-05", <<>>)

Summary(drive, onDuty, offDuty, warnings) ==
  [total_drive_hours |-> drive, total_on_duty_hours |-> onDuty,
   total_off_duty_hours |-> offDuty, warnings |-> warnings]

\* What the planner may answer: the JSON body of /api/plan-route/, as App reads
\* it (days, trip_summary).  hasDays is FALSE for a body without a days field.
PlanResponses ==
  { [hasDays |-> TRUE, days |-> <<DayOverlap, DayMidnight>>,
     trip_summary |-> Summary(350, 350, 980, <<>>)],
    [hasDays |-> TRUE, days |-> <<DayFuel>>,
     trip_summary |-> Summary(400, 301, 100, <<W70>>)],
    [hasDays |-> TRUE, days |-> <<DayReversed, DayEmpty>>,
     trip_summary |-> Summary(710, 0, 0, <<W70>>)],
    [hasDays |-> TRUE, days |-> <<>>,
     trip_summary |-> Summary(0, 0, 0, <<>>)],
    [hasDays |-> FALSE, days |-> <<>>,
     trip_summary |-> Summary(0, 0, 0, <<>>)] }

\* ----------------------------------------------------------------- state
VARIABLES
  planResult,    \* App: the planner result held in state (has = FALSE: null);
                 \*   days holds references into heap
  loading,       \* App: a plan request is pending
  planRequests,  \* number of plan requests issued so far
  alerts,        \* the messages shown with alert(), in order
  heap,          \* the Day objects the planner results brought, by reference
  logDays,       \* LogCanvas: its state, an array of references to Day objects
  canvases,      \* LogCanvas: what is drawn on canvas log-i (the strokes)
  imageLoads,    \* LogCanvas: background images loading, each with the logDays
                 \*   array its effect closed over
  clicks,        \* number of canvas clicks handled so far
  exportPc,      \* handleDownloadPDF: "idle", "html2canvas" (awaiting it, the
                 \*   canvas not yet read), "rendered" (awaiting it, the image
                 \*   made) or "detached" (awaiting it, the canvas gone)
  exportI,       \* handleDownloadPDF: the loop's i, counted from 1
  exportLogDays, \* handleDownloadPDF: the logDays its closure holds
  exportImg,     \* handleDownloadPDF: the image html2canvas made
  pdf,           \* handleDownloadPDF: the pages of the jsPDF document
  downloads,     \* the documents saved, each with the days it was made for
  exportStart,   \* history: the sheets as they were when the export started
  currentDate,   \* handleDownloadPDF: the time it read when it started
  now,           \* the clock: seconds since the page was opened
  pickupDropoff, \* MapWithLogs: pickup and dropoff are both filled in
  cycleHoursUsed,\* MapWithLogs: the cycle hours entered, in tenths
  routeCycleHours,\* generateRoute: the cycleHoursUsed its closure holds
  mapLoading,    \* MapWithLogs: loading, a route request is pending
  routeRequests, \* number of route requests issued so far
  mapLogDays,    \* MapWithLogs: logDays, the days with their activities
  selectedStatus,\* MapWithLogs: the status the next stroke gets
  isDrawing,     \* MapWithLogs: a stroke is being dragged
  pointerOver,   \* the day whose canvas the pointer is over, 0 for none
  strokes,       \* number of mouse-downs handled so far
  realTime,      \* MapWithLogs: the tracker, elapsed and remaining in tenths
  mapCrashed,    \* MapWithLogs: a state updater threw, the screen is gone
  trip,          \* MapWithLogs: the trip of the last answer (has = FALSE: null)
  ticks,         \* number of timer ticks of the tracker so far
  mapDownloads   \* the documents MapWithLogs saved

appVars ==
  <<planResult, loading, planRequests, alerts, heap, logDays, canvases,
    imageLoads, clicks>>

exportVars ==
  <<exportPc, exportI, exportLogDays, exportImg, pdf, downloads, exportStart,
    currentDate>>

mapVars ==
  <<pickupDropoff, cycleHoursUsed, routeCycleHours, mapLoading, routeRequests,
    mapLogDays, selectedStatus, isDrawing, pointerOver, strokes, realTime,
    mapCrashed, trip, ticks, mapDownloads>>

vars == <<appVars, exportVars, mapVars, now>>

NoPlan ==
  [has |-> FALSE, hasDays |-> FALSE, days |-> <<>>,
   trip_summary |-> Summary(0, 0, 0, <<>>)]

\* useState(null) of MapWithLogs's trip.
NoTrip == [has |-> FALSE, days |-> 0]

\* planResult?.days && <LogCanvas .../>: an empty array is truthy.
LogCanvasMounted == planResult.has /\ planResult.hasDays

Init ==
  /\ planResult = NoPlan
  /\ loading = FALSE
  /\ planRequests = 0
  /\ alerts = <<>>
  /\ heap = <<>>
  /\ logDays = <<>>
  /\ canvases = <<>>
  /\ imageLoads = {}
  /\ clicks = 0
  /\ exportPc = "idle"
  /\ exportI = 0
  /\ exportLogDays = <<>>
  /\ exportImg = <<>>
  /\ pdf = <<>>
  /\ downloads = <<>>
  /\ exportStart = <<>>
  /\ currentDate = 0
  /\ now = 0
  /\ pickupDropoff = TRUE
  /\ cycleHoursUsed = 0
  /\ routeCycleHours = 0
  /\ mapLoading = FALSE
  /\ routeRequests = 0
  /\ mapLogDays = <<>>
  /\ selectedStatus = "Driving"
  /\ isDrawing = FALSE
  /\ pointerOver = 0
  /\ strokes = 0
  /\ realTime = [elapsed |-> 0, remaining |-> CycleLimit]
  /\ mapCrashed = FALSE
  /\ trip = NoTrip
  /\ ticks = 0
  /\ mapDownloads = <<>>

\* -------------------------------------------------------------- App.js
\* The button is disabled while loading; setLoading(true), then the fetch is
\* awaited.
callPlanRoute ==
  /\ ~loading
  /\ planRequests < MaxPlans
  /\ loading' = TRUE
  /\ planRequests' = planRequests + 1
  /\ UNCHANGED <<planResult, alerts, heap, logDays, canvases, imageLoads, clicks>>
  /\ UNCHANGED exportVars
  /\ UNCHANGED mapVars
  /\ UNCHANGED now

\* The references of n Day objects allocated after the k the heap holds.
NewRefs(k, n) == [i \in 1..n |-> k + i]

\* The fetch resolves with an ok response: setPlanResult(json), then
\* setLoading(false).  LogCanvas is rendered when planResult.days is truthy:
\*   - mounted before and after: useState(days) keeps the state it has, the
\*     effect's dependency [logDays] is unchanged, nothing is redrawn;
\*   - mounted now: logDays starts as the days prop, the canvases are new, the
\*     effect starts loading the background image;
\*   - unmounted now: its state and canvases are gone; a canvas html2canvas was
\*     given and has not read yet is no longer in the document.
planResolved(json) ==
  /\ loading
  /\ LET refs == NewRefs(Len(heap), Len(json.days))
         was == LogCanvasMounted
     IN  /\ heap' = heap \o json.days
         /\ planResult' =
              [has |-> TRUE, hasDays |-> json.hasDays, days |-> refs,
               trip_summary |-> json.trip_summary]
         /\ IF json.hasDays /\ was
              THEN UNCHANGED <<logDays, canvases, imageLoads>>
            ELSE IF json.hasDays
              THEN /\ logDays' = refs
                   /\ canvases' = [i \in 1..Len(refs) |-> <<>>]
                   /\ imageLoads' = imageLoads \cup {refs}
            ELSE /\ logDays' = <<>>
                 /\ canvases' = <<>>
                 /\ UNCHANGED imageLoads
  /\ exportPc' = IF ~json.hasDays /\ exportPc = "html2canvas" THEN "detached"
                 ELSE exportPc
  /\ loading' = FALSE
  /\ UNCHANGED <<planRequests, alerts, clicks>>
  /\ UNCHANGED <<exportI, exportLogDays, exportImg, pdf, downloads, exportStart>>
  /\ UNCHANGED mapVars
  /\ UNCHANGED now
  /\ UNCHANGED currentDate

\* planFailed with the request issued again from the catch block instead of
\* ending.
planFailedRetry ==
  /\ loading
  /\ planRequests < MaxPlans
  /\ alerts' = Append(alerts, "Plan request failed")
  /\ planRequests' = planRequests + 1
  /\ UNCHANGED <<planResult, loading, heap, logDays, canvases, imageLoads, clicks>>
  /\ UNCHANGED exportVars
  /\ UNCHANGED mapVars
  /\ UNCHANGED now

\* The fetch rejects or the response is not ok: alert, then setLoading(false).
planFailed ==
  /\ loading
  /\ alerts' = Append(alerts, "Plan request failed")
  /\ loading' = FALSE
  /\ UNCHANGED <<planResult, planRequests, heap, logDays, canvases, imageLoads, clicks>>
  /\ UNCHANGED exportVars
  /\ UNCHANGED mapVars
  /\ UNCHANGED now

\* ----------------------------------------------------------- LogCanvas
CanvasWidth == 1000

CanvasHeight == 200

\* Where the canvases are clicked: (x, y) from the canvas's top left corner.
ClickPoints ==
  { [x |-> 980, y |-> 10], [x |-> 480, y |-> 70],
    [x |-> 100, y |-> 120], [x |-> 400, y |-> 190] }

\* Math.floor((x / canvas.width) * 24)
ClickHour(x) == (x * 24) \div CanvasWidth

\* The band of the canvas clicked.
ClickStatus(y) ==
  IF y * 4 < CanvasHeight THEN "OnDuty"
  ELSE IF y * 2 < CanvasHeight THEN "Driving"
  ELSE IF y * 4 < CanvasHeight * 3 THEN "Sleeper"
  ELSE "OffDuty"

\* new Date(`2025-11-01T${h}:00:00Z`).  With two digits the string is in the
\* ECMAScript date-time format (24:00:00 being the start of the next day).
\* With one digit it is not, and the result is implementation-defined: an
\* engine either reads it leniently or gives an Invalid Date.
ParseClickDate(h, lenient) ==
  IF h >= 10 \/ lenient THEN h * 60 ELSE NaN

\* The activity a click makes.
newActivity(x, y, lenient) ==
  [status |-> ClickStatus(y),
   start |-> ParseClickDate(ClickHour(x), lenient),
   end |-> ParseClickDate(ClickHour(x) + 1, lenient)]

\* updated = [...prev]; updated[dayIndex].activities.push(newActivity): the Day
\* object itself gets the activity; the new array holds the same references.
\* The new state makes the effect run again.
handleCanvasClick(dayIndex, x, y, lenient) ==
  /\ LogCanvasMounted
  /\ dayIndex \in 1..Len(logDays)
  /\ clicks < MaxClicks
  /\ heap' = [heap EXCEPT ![logDays[dayIndex]].activities =
                Append(@, newActivity(x, y, lenient))]
  /\ logDays' = logDays
  /\ imageLoads' = imageLoads \cup {logDays}
  /\ clicks' = clicks + 1
  /\ UNCHANGED <<planResult, loading, planRequests, alerts, canvases>>
  /\ UNCHANGED exportVars
  /\ UNCHANGED mapVars
  /\ UNCHANGED now

\* bgImage.onload of one effect run: every day of the logDays the effect closed
\* over is drawn on the canvas with its index, if there is one.
bgImageOnload(days) ==
  /\ days \in imageLoads
  /\ canvases' =
       [i \in 1..Len(canvases) |->
          IF i <= Len(days) THEN drawCanvas(heap[days[i]].activities)
          ELSE canvases[i]]
  /\ imageLoads' = imageLoads \ {days}
  /\ UNCHANGED <<planResult, loading, planRequests, alerts, heap, logDays, clicks>>
  /\ UNCHANGED exportVars
  /\ UNCHANGED mapVars
  /\ UNCHANGED now

RECURSIVE CycleHours(_, _)
\* reduce((sum, d) => sum + calcTotalHours(d.activities, "Driving")
\*                        + calcTotalHours(d.activities, "OnDuty"), 0)
\* over an array of references, continued from the running sum.
CycleHours(days, sum) ==
  IF days = <<>> THEN sum
  ELSE CycleHours(Tail(days),
         NumAdd(NumAdd(sum, calcTotalHours(heap[Head(days)].activities, "Driving")),
                calcTotalHours(heap[Head(days)].activities, "OnDuty")))

\* Compute total hours for the cycle.
currentCycleHours == CycleHours(logDays, 0)

\* What LogCanvas renders for each day: the date, the number of activities and
\* the canvas.
LogSheets ==
  [i \in 1..Len(logDays) |->
     [date |-> heap[logDays[i]].date,
      activities |-> Len(heap[logDays[i]].activities),
      canvas |-> canvases[i]]]

\* -------------------------------------------------- handleDownloadPDF
\* A page of the jsPDF document: what handleDownloadPDF put on it.  The hours
\* are the toFixed(1) texts, generated is the time of the "Generated:" text
\* (-1 on a page without it).
BlankPage ==
  [written |-> FALSE, date |-> "", image |-> <<>>,
   driveHrs |-> 0, onDutyHrs |-> 0, offDutyHrs |-> 0, generated |-> -1]

\* document.getElementById(`log-${i}`) finds a canvas: LogCanvas renders one
\* per day of its state.
CanvasFound(i) == i <= Len(canvases)

RECURSIVE NextCanvas(_, _)
\* The loop from i on: if (!canvas) continue.  The first index whose canvas
\* is found, or one past the last day.
NextCanvas(days, i) ==
  IF i > Len(days) \/ CanvasFound(i) THEN i ELSE NextCanvas(days, i + 1)

\* The for loop run from index i with the document doc, up to its next await
\* (html2canvas of the next canvas found) or, past the last day, pdf.save.
\* start is the history kept with the saved document.
ExportLoop(days, i, doc, start) ==
  LET j == NextCanvas(days, i)
  IN  IF j <= Len(days)
        THEN /\ exportPc' = "html2canvas"
             /\ exportI' = j
             /\ pdf' = doc
             /\ UNCHANGED downloads
        ELSE /\ exportPc' = "idle"
             /\ exportI' = 0
             /\ pdf' = <<>>
             /\ downloads' =
                  Append(downloads, [days |-> days, pages |-> doc, start |-> start])

\* The page LogCanvas shows for day i of days: its date, its canvas and the
\* totals printed beneath the image.
Sheet(days, i) ==
  [date |-> heap[days[i]].date,
   image |-> canvases[i],
   driveHrs |-> ToFixed1(calcTotalHours(heap[days[i]].activities, "Driving")),
   onDutyHrs |-> ToFixed1(calcTotalHours(heap[days[i]].activities, "OnDuty")),
   offDutyHrs |-> ToFixed1(calcTotalHours(heap[days[i]].activities, "OffDuty"))]

\* The button is clicked: new jsPDF (a document of one empty page),
\* currentDate = new Date().toLocaleString(), then the loop up to its first
\* await.
handleDownloadPDF ==
  /\ exportPc = "idle"
  /\ LogCanvasMounted
  /\ exportLogDays' = logDays
  /\ exportStart' = [i \in 1..Len(logDays) |-> Sheet(logDays, i)]
  /\ exportImg' = <<>>
  /\ currentDate' = now
  /\ ExportLoop(logDays, 1, <<BlankPage>>, [i \in 1..Len(logDays) |-> Sheet(logDays, i)])
  /\ UNCHANGED appVars
  /\ UNCHANGED mapVars
  /\ UNCHANGED now

\* html2canvas reads the canvas it was given and makes its image.
html2canvasRender ==
  /\ exportPc = "html2canvas"
  /\ CanvasFound(exportI)
  /\ exportImg' = canvases[exportI]
  /\ exportPc' = "rendered"
  /\ UNCHANGED <<exportI, exportLogDays, pdf, downloads, exportStart>>
  /\ UNCHANGED appVars
  /\ UNCHANGED mapVars
  /\ UNCHANGED now
  /\ UNCHANGED currentDate

\* html2canvas does not find the canvas in the document and rejects: the await
\* throws, handleDownloadPDF ends without saving.
html2canvasRejected ==
  /\ exportPc = "detached"
  /\ exportPc' = "idle"
  /\ exportI' = 0
  /\ exportImg' = <<>>
  /\ pdf' = <<>>
  /\ UNCHANGED <<exportLogDays, downloads, exportStart>>
  /\ UNCHANGED appVars
  /\ UNCHANGED mapVars
  /\ UNCHANGED now
  /\ UNCHANGED currentDate

\* The await of html2canvas returns: if (i > 0) pdf.addPage(), the header, the
\* date, the image and the totals go on the current page, and the loop goes on.
exportResumed ==
  /\ exportPc = "rendered"
  /\ LET doc == IF exportI > 1 THEN Append(pdf, BlankPage) ELSE pdf
         day == heap[exportLogDays[exportI]]
         page ==
           [written |-> TRUE, date |-> day.date, image |-> exportImg,
            driveHrs |-> ToFixed1(calcTotalHours(day.activities, "Driving")),
            onDutyHrs |-> ToFixed1(calcTotalHours(day.activities, "OnDuty")),
            offDutyHrs |-> ToFixed1(calcTotalHours(day.activities, "OffDuty")),
            generated |-> currentDate]
     IN  ExportLoop(exportLogDays, exportI + 1, [doc EXCEPT ![Len(doc)] = page], exportStart)
  /\ exportImg' = <<>>
  /\ UNCHANGED <<exportLogDays, exportStart>>
  /\ UNCHANGED appVars
  /\ UNCHANGED mapVars
  /\ UNCHANGED now
  /\ UNCHANGED currentDate

\* ---------------------------------------------------- DaySummarySidebar
\* What App's DaySummarySidebar renders from planResult.days: nothing without
\* days, otherwise an entry per day with its drive and rest hours (toFixed(1))
\* and its number of fuel stops (activities of type "fuel_stop", which the
\* activities here do not carry).
DaySummarySidebar ==
  IF ~(planResult.has /\ planResult.hasDays) \/ planResult.days = <<>>
    THEN [rendered |-> FALSE, entries |-> <<>>]
    ELSE [rendered |-> TRUE,
          entries |->
            [idx \in 1..Len(planResult.days) |->
               [drive |-> ToFixed1(calcHours(heap[planResult.days[idx]].activities, "Driving")),
                off |-> ToFixed1(calcHours(heap[planResult.days[idx]].activities, "OffDuty")),
                fuelStops |-> 0]]]

\* --------------------------------------------------- ComplianceSummary
DriveLimit == 700

DriveWarn == 600

\* x || 0
OrZero(x) == IF IsNaN(x) THEN 0 ELSE x

\* The colour of the visual drive bar.
barBackground(totalDrive) ==
  IF totalDrive > DriveLimit THEN "#ff3333"
  ELSE IF totalDrive > DriveWarn THEN "#ffc107"
  ELSE "#4caf50"

\* What ComplianceSummary renders from planResult?.trip_summary,
\* planResult?.days and planResult?.trip_summary?.warnings.
ComplianceSummary ==
  LET tripSummary == planResult.trip_summary
      totalDrive == OrZero(tripSummary.total_drive_hours)
  IN  [totalDrive |-> totalDrive,
       totalOnDuty |-> OrZero(tripSummary.total_on_duty_hours),
       totalOffDuty |-> OrZero(tripSummary.total_off_duty_hours),
       totalDays |-> Len(planResult.days),
       background |-> barBackground(totalDrive),
       warnings |-> tripSummary.warnings]

\* ---------------------------------------------------------- MapWithLogs
\* Where the canvases are pressed and dragged to: x from the canvas's left.
MouseX == {250, 750}

\* The statuses picked with the status buttons.
StatusButtons == {"Driving", "OffDuty"}

\* data.trip.days of the planner's answers.
RouteDays == {0, 1, 2}

\* (x / canvas.width) * 24, in thousandths of an hour.
MouseHour(x) == (x * 24 * 1000) \div CanvasWidth

\* What is entered in the cycle hours field, as parseFloat reads it, in tenths:
\* the field's min and max do not keep a typed value out, and an emptied field
\* gives NaN.
CycleInputs == {0, 699, 800, NaN}

\* onChange of the cycle hours field: setCycleHoursUsed(parseFloat(value)).
setCycleHoursUsed(value) ==
  /\ ~mapCrashed
  /\ value # cycleHoursUsed
  /\ cycleHoursUsed' = value
  /\ UNCHANGED <<pickupDropoff, routeCycleHours, mapLoading, routeRequests,
                 mapLogDays, selectedStatus, isDrawing, pointerOver, strokes,
                 realTime, mapCrashed, trip, ticks, mapDownloads>>
  /\ UNCHANGED <<appVars, exportVars, now>>

\* Math.min(a, b) and Math.max(a, b): NaN if either is NaN.
MathMin(a, b) == IF IsNaN(a) \/ IsNaN(b) THEN NaN ELSE IF a < b THEN a ELSE b

MathMax(a, b) == IF IsNaN(a) \/ IsNaN(b) THEN NaN ELSE IF a > b THEN a ELSE b

\* The interval timer fires (every 2 seconds while MapWithLogs is mounted):
\* elapsed goes up by 0.1 to at most 70, remaining down by 0.1 to at least 0.
timerTick ==
  /\ ~mapCrashed
  /\ ticks < MaxTicks
  /\ ticks' = ticks + 1
  /\ realTime' = [elapsed |-> MathMin(NumAdd(realTime.elapsed, 1), CycleLimit),
                  remaining |-> MathMax(NumSub(realTime.remaining, 1), 0)]
  /\ UNCHANGED <<pickupDropoff, cycleHoursUsed, routeCycleHours, mapLoading,
                 routeRequests, mapLogDays, selectedStatus, isDrawing,
                 pointerOver, strokes, mapCrashed, trip, mapDownloads>>
  /\ UNCHANGED <<appVars, exportVars, now>>

\* The pickup or dropoff field is cleared, or filled in again.
setPickup ==
  /\ ~mapCrashed
  /\ pickupDropoff' = ~pickupDropoff
  /\ UNCHANGED <<cycleHoursUsed, routeCycleHours, mapLoading, routeRequests,
                 mapLogDays, selectedStatus, isDrawing, pointerOver, strokes,
                 realTime, mapCrashed>>
  /\ UNCHANGED <<appVars, exportVars>>
  /\ UNCHANGED now
  /\ UNCHANGED <<trip, ticks, mapDownloads>>

\* A status button is clicked.
setSelectedStatus(status) ==
  /\ ~mapCrashed
  /\ selectedStatus' = status
  /\ UNCHANGED <<pickupDropoff, cycleHoursUsed, routeCycleHours, mapLoading,
                 routeRequests, mapLogDays, isDrawing, pointerOver, strokes,
                 realTime, mapCrashed>>
  /\ UNCHANGED <<appVars, exportVars>>
  /\ UNCHANGED now
  /\ UNCHANGED <<trip, ticks, mapDownloads>>

\* The Generate Route button, disabled while loading, is clicked: without a
\* pickup or dropoff an alert and nothing else; otherwise setLoading(true) and
\* the request is awaited.  The closure holds the cycleHoursUsed of this render.
generateRoute ==
  /\ ~mapCrashed
  /\ ~mapLoading
  /\ routeRequests < MaxRoutes
  /\ routeRequests' = routeRequests + 1
  /\ IF ~pickupDropoff
       THEN /\ alerts' = Append(alerts, "Enter pickup & dropoff")
            /\ UNCHANGED <<mapLoading, routeCycleHours>>
       ELSE /\ mapLoading' = TRUE
            /\ routeCycleHours' = cycleHoursUsed
            /\ UNCHANGED alerts
  /\ UNCHANGED <<pickupDropoff, cycleHoursUsed, mapLogDays, selectedStatus,
                 isDrawing, pointerOver, strokes, realTime, mapCrashed>>
  /\ UNCHANGED <<planResult, loading, planRequests, heap, logDays, canvases,
                 imageLoads, clicks>>
  /\ UNCHANGED exportVars
  /\ UNCHANGED now
  /\ UNCHANGED <<trip, ticks, mapDownloads>>

\* The request resolves: the trip, the stops and the route line are set,
\* logDays becomes data.trip.days || 1 days without activities, the tracker is
\* set from the cycle hours, then setLoading(false).  The canvases are keyed by
\* index: one the pointer is over stays under it if its index is still there.
routeResolved(days) ==
  /\ mapLoading
  /\ LET n == IF days = 0 THEN 1 ELSE days
     IN  /\ mapLogDays' = [i \in 1..n |-> [date |-> i, activities |-> <<>>]]
         /\ pointerOver' = IF pointerOver > n THEN 0 ELSE pointerOver
  /\ trip' = [has |-> TRUE, days |-> days]
  /\ realTime' = [elapsed |-> routeCycleHours,
                  remaining |-> NumSub(CycleLimit, routeCycleHours)]
  /\ mapLoading' = FALSE
  /\ UNCHANGED <<pickupDropoff, cycleHoursUsed, routeCycleHours, routeRequests,
                 selectedStatus, isDrawing, strokes, mapCrashed>>
  /\ UNCHANGED <<appVars, exportVars>>
  /\ UNCHANGED now
  /\ UNCHANGED <<ticks, mapDownloads>>

\* The request fails: console.error, alert, then setLoading(false).
routeFailed ==
  /\ mapLoading
  /\ alerts' = Append(alerts, "Failed to generate trip.")
  /\ mapLoading' = FALSE
  /\ UNCHANGED <<pickupDropoff, cycleHoursUsed, routeCycleHours, routeRequests,
                 mapLogDays, selectedStatus, isDrawing, pointerOver, strokes,
                 realTime, mapCrashed>>
  /\ UNCHANGED <<planResult, loading, planRequests, heap, logDays, canvases,
                 imageLoads, clicks>>
  /\ UNCHANGED exportVars
  /\ UNCHANGED now
  /\ UNCHANGED <<trip, ticks, mapDownloads>>

\* The pointer comes over the canvas of a day.
mouseEnter(dayIdx) ==
  /\ ~mapCrashed
  /\ pointerOver = 0
  /\ dayIdx \in 1..Len(mapLogDays)
  /\ pointerOver' = dayIdx
  /\ UNCHANGED <<pickupDropoff, cycleHoursUsed, routeCycleHours, mapLoading,
                 routeRequests, mapLogDays, selectedStatus, isDrawing, strokes,
                 realTime, mapCrashed>>
  /\ UNCHANGED <<appVars, exportVars>>
  /\ UNCHANGED now
  /\ UNCHANGED <<trip, ticks, mapDownloads>>

\* onMouseLeave={handleMouseUp}: the pointer leaves the canvas it is over.
mouseLeave ==
  /\ ~mapCrashed
  /\ pointerOver # 0
  /\ pointerOver' = 0
  /\ isDrawing' = FALSE
  /\ UNCHANGED <<pickupDropoff, cycleHoursUsed, routeCycleHours, mapLoading,
                 routeRequests, mapLogDays, selectedStatus, strokes, realTime,
                 mapCrashed>>
  /\ UNCHANGED <<appVars, exportVars>>
  /\ UNCHANGED now
  /\ UNCHANGED <<trip, ticks, mapDownloads>>

\* setIsDrawing(true), and an activity of no length is pushed on the day.
handleMouseDown(dayIdx, x) ==
  /\ ~mapCrashed
  /\ pointerOver = dayIdx
  /\ strokes < MaxStrokes
  /\ strokes' = strokes + 1
  /\ isDrawing' = TRUE
  /\ mapLogDays' =
       [mapLogDays EXCEPT ![dayIdx].activities =
          Append(@, [status |-> selectedStatus, startHour |-> MouseHour(x),
                     endHour |-> MouseHour(x)])]
  /\ UNCHANGED <<pickupDropoff, cycleHoursUsed, routeCycleHours, mapLoading,
                 routeRequests, selectedStatus, pointerOver, realTime, mapCrashed>>
  /\ UNCHANGED <<appVars, exportVars>>
  /\ UNCHANGED now
  /\ UNCHANGED <<trip, ticks, mapDownloads>>

\* if (!isDrawing) return; the end of the day's last activity becomes the
\* pointer's hour.  On a day without activities currentAct is undefined and the
\* updater throws.
handleMouseMove(dayIdx, x) ==
  /\ ~mapCrashed
  /\ pointerOver = dayIdx
  /\ isDrawing
  /\ LET activities == mapLogDays[dayIdx].activities
     IN  IF activities = <<>>
           THEN /\ mapCrashed' = TRUE
                /\ UNCHANGED mapLogDays
           ELSE /\ mapLogDays' =
                     [mapLogDays EXCEPT
                        ![dayIdx].activities[Len(activities)].endHour = MouseHour(x)]
                /\ UNCHANGED mapCrashed
  /\ UNCHANGED <<pickupDropoff, cycleHoursUsed, routeCycleHours, mapLoading,
                 routeRequests, selectedStatus, isDrawing, pointerOver, strokes,
                 realTime>>
  /\ UNCHANGED <<appVars, exportVars>>
  /\ UNCHANGED now
  /\ UNCHANGED <<trip, ticks, mapDownloads>>

\* onMouseUp: setIsDrawing(false).
handleMouseUp ==
  /\ ~mapCrashed
  /\ pointerOver # 0
  /\ isDrawing' = FALSE
  /\ UNCHANGED <<pickupDropoff, cycleHoursUsed, routeCycleHours, mapLoading,
                 routeRequests, mapLogDays, selectedStatus, pointerOver, strokes,
                 realTime, mapCrashed>>
  /\ UNCHANGED <<appVars, exportVars>>
  /\ UNCHANGED now
  /\ UNCHANGED <<trip, ticks, mapDownloads>>

\* MapWithLogs's drawCanvas: the canvas is cleared and one line is stroked per
\* activity, from its startHour to its endHour.
mapDrawCanvas(activities) ==
  [k \in 1..Len(activities) |->
     [xStart |-> activities[k].startHour, xEnd |-> activities[k].endHour,
      y |-> statusY(activities[k].status),
      strokeStyle |-> colors(activities[k].status)]]

RECURSIVE SumMax(_, _)
\* reduce((sum, a) => sum + Math.max(a.endHour - a.startHour, 0), 0), continued
\* from the running sum.
SumMax(acts, sum) ==
  IF acts = <<>> THEN sum
  ELSE LET d == Head(acts).endHour - Head(acts).startHour
       IN  SumMax(Tail(acts), sum + (IF d > 0 THEN d ELSE 0))

\* MapWithLogs's calcHours: the toFixed(1) text of the sum, in tenths.
mapCalcHours(activities, status) ==
  (SumMax(SelectSeq(activities, LAMBDA a: a.status = status), 0) + 50) \div 100

\* The page downloadPDF writes for a day: the date, the canvas as the effect
\* drew it, the three totals and the "Generated:" text.
mapPage(day, date) ==
  [written |-> TRUE, date |-> day.date, image |-> mapDrawCanvas(day.activities),
   driveHrs |-> mapCalcHours(day.activities, "Driving"),
   onDutyHrs |-> mapCalcHours(day.activities, "OnDuty"),
   offDutyHrs |-> mapCalcHours(day.activities, "OffDuty"),
   generated |-> date]

\* MapWithLogs's downloadPDF: new jsPDF (one empty page),
\* currentDate = new Date().toLocaleString(), a page per day (every day has
\* its canvas in canvasRefs), pdf.save.
downloadPDF ==
  /\ ~mapCrashed
  /\ mapDownloads' =
       Append(mapDownloads,
         [days |-> mapLogDays,
          pages |-> IF mapLogDays = <<>> THEN <<[BlankPage EXCEPT !.date = 0]>>
                    ELSE [i \in 1..Len(mapLogDays) |-> mapPage(mapLogDays[i], now)]])
  /\ UNCHANGED <<pickupDropoff, cycleHoursUsed, routeCycleHours, mapLoading,
                 routeRequests, mapLogDays, selectedStatus, isDrawing,
                 pointerOver, strokes, realTime, mapCrashed, trip, ticks>>
  /\ UNCHANGED <<appVars, exportVars, now>>

\* A second passes on the clock new Date() reads.
clockTick ==
  /\ now < MaxClock
  /\ now' = now + 1
  /\ UNCHANGED <<appVars, exportVars, mapVars>>

\* --------------------------------------------------------- specification
NextLog ==
  \/ callPlanRoute
  \/ \E json \in PlanResponses: planResolved(json)
  \/ planFailed
  \/ \E dayIndex \in 1..2, p \in ClickPoints, lenient \in BOOLEAN:
       handleCanvasClick(dayIndex, p.x, p.y, lenient)
  \/ \E days \in imageLoads: bgImageOnload(days)

\* The log sheets: planning, editing and drawing.
SpecLog == Init /\ [][NextLog]_vars

Next ==
  \/ NextLog
  \/ (Len(downloads) < MaxExports /\ handleDownloadPDF)
  \/ html2canvasRender
  \/ html2canvasRejected
  \/ exportResumed

\* The log sheets and their export.
Spec == Init /\ [][Next]_vars

NextMap ==
  \/ setPickup
  \/ \E status \in StatusButtons: setSelectedStatus(status)
  \/ generateRoute
  \/ \E days \in RouteDays: routeResolved(days)
  \/ routeFailed
  \/ \E dayIdx \in 1..2: mouseEnter(dayIdx)
  \/ mouseLeave
  \/ \E dayIdx \in 1..2, x \in MouseX: handleMouseDown(dayIdx, x)
  \/ \E dayIdx \in 1..2, x \in MouseX: handleMouseMove(dayIdx, x)
  \/ handleMouseUp

\* The interactive log planner.
SpecMap == Init /\ [][NextMap]_vars

NextTracker ==
  \/ \E value \in CycleInputs: setCycleHoursUsed(value)
  \/ generateRoute
  \/ \E days \in RouteDays: routeResolved(days)
  \/ routeFailed
  \/ timerTick

\* The real-time tracker: the cycle hours entered, the routes generated and
\* the timer.
SpecTracker == Init /\ [][NextTracker]_vars

NextFetch ==
  \/ callPlanRoute
  \/ \E json \in PlanResponses: planResolved(json)
  \/ planFailed
  \/ generateRoute
  \/ \E days \in RouteDays: routeResolved(days)
  \/ routeFailed
  \/ timerTick

\* The planner requests of both screens, with the tracker's timer running.
SpecFetch == Init /\ [][NextFetch]_vars

NextExport ==
  \/ callPlanRoute
  \/ \E json \in PlanResponses: planResolved(json)
  \/ \E days \in imageLoads: bgImageOnload(days)
  \/ (Len(downloads) + Len(mapDownloads) < MaxReports /\ handleDownloadPDF)
  \/ html2canvasRender
  \/ html2canvasRejected
  \/ exportResumed
  \/ generateRoute
  \/ \E days \in RouteDays: routeResolved(days)
  \/ (Len(downloads) + Len(mapDownloads) < MaxReports /\ downloadPDF)
  \/ clockTick

\* The exports of both screens, of trips nothing edits, with the clock running.
SpecExport == Init /\ [][NextExport]_vars

\* The activities the planner's day is made of in SpecAgg.
AggActivities ==
  { Act("Driving", 60, 180), Act("Driving", 120, 240),
    Act("OnDuty", 120, 210), Act("Driving", 300, 240) }

SeqsUpTo(S, n) == UNION {[1..k -> S] : k \in 0..n}

\* A first planner result has just arrived with one day, whose activities are
\* any sequence of at most MaxActs of AggActivities, and with a trip_summary
\* that holds the totals of that day; LogCanvas is mounted on it.
InitAgg ==
  \E acts \in SeqsUpTo(AggActivities, MaxActs):
    /\ planResult = [has |-> TRUE, hasDays |-> TRUE, days |-> <<1>>,
                     trip_summary |->
                       Summary(ToFixed1(calcTotalHours(acts, "Driving")),
                               ToFixed1(calcTotalHours(acts, "OnDuty")),
                               ToFixed1(calcTotalHours(acts, "OffDuty")), <<>>)]
    /\ loading = FALSE
    /\ planRequests = 1
    /\ alerts = <<>>
    /\ heap = <<Day("2025-11-01", acts)>>
    /\ logDays = <<1>>
    /\ canvases = << <<>> >>
    /\ imageLoads = {<<1>>}
    /\ clicks = 0
    /\ exportPc = "idle"
    /\ exportI = 0
    /\ exportLogDays = <<>>
    /\ exportImg = <<>>
    /\ pdf = <<>>
    /\ downloads = <<>>
    /\ exportStart = <<>>
    /\ currentDate = 0
    /\ now = 0
    /\ pickupDropoff = TRUE
    /\ cycleHoursUsed = 0
    /\ routeCycleHours = 0
    /\ mapLoading = FALSE
    /\ routeRequests = 0
    /\ mapLogDays = <<>>
    /\ selectedStatus = "Driving"
    /\ isDrawing = FALSE
    /\ pointerOver = 0
    /\ strokes = 0
    /\ realTime = [elapsed |-> 0, remaining |-> CycleLimit]
    /\ mapCrashed = FALSE
    /\ trip = NoTrip
    /\ ticks = 0
    /\ mapDownloads = <<>>

NextAgg ==
  \E p \in ClickPoints, lenient \in BOOLEAN:
    handleCanvasClick(1, p.x, p.y, lenient)

\* The aggregation of one day, over every day the planner may bring and every
\* edit of it by clicks.
SpecAgg == InitAgg /\ [][NextAgg]_vars

\* ---------------------------------------------------------------- claims
RECURSIVE SumOver(_, _)
\* The sum of f over the set S, in no particular order.
SumOver(S, f) ==
  IF S = {} THEN 0
  ELSE LET i == CHOOSE j \in S: TRUE
       IN  NumAdd(f[i], SumOver(S \ {i}, f))

\* The straight sum of (end - start) over the activities of the status.
StraightSum(acts, status) ==
  SumOver({i \in 1..Len(acts): acts[i].status = status},
          [i \in 1..Len(acts) |-> NumSub(acts[i].end, acts[i].start)])

\* The list with the activities at i and j exchanged.
Exchanged(acts, i, j) ==
  [k \in 1..Len(acts) |-> IF k = i THEN acts[j] ELSE IF k = j THEN acts[i] ELSE acts[k]]

\* C1: for every day the planner brought or a click edited and each of the four
\* statuses, the total LogCanvas and the sidebar compute is the straight sum of
\* (end - start) over the activities of that status, and stays the same when
\* any two activities of the day change places; overlapping activities count
\* in full.
C1_StraightSum ==
  \A r \in 1..Len(heap): \A status \in DutyStatus:
    LET acts == heap[r].activities
    IN  /\ calcTotalHours(acts, status) = StraightSum(acts, status)
        /\ calcHours(acts, status) = StraightSum(acts, status)
        /\ \A i \in 1..Len(acts): \A j \in (i + 1)..Len(acts):
             calcTotalHours(Exchanged(acts, i, j), status) = StraightSum(acts, status)

\* C1's case: a displayed day holds Driving 01:00-03:00 and Driving
\* 02:00-04:00, a click has added an activity of another status to it, and
\* its Driving total is 4 hours.
C1_Witness ==
  /\ clicks > 0
  /\ \E i \in 1..Len(logDays):
       LET acts == heap[logDays[i]].activities
       IN  /\ Len(acts) > 2
           /\ acts[1] = Act("Driving", 60, 180)
           /\ acts[2] = Act("Driving", 120, 240)
           /\ acts[Len(acts)].status # "Driving"
           /\ calcTotalHours(acts, "Driving") = 240

\* C2: an activity whose end hour of the day is before its start hour of the
\* day is drawn as two lines, [start, 24] and [0, end], in its status's lane,
\* and no canvas holds a line running backwards.
C2_MidnightSplit ==
  /\ \A r \in 1..Len(heap): \A k \in 1..Len(heap[r].activities):
       LET a == heap[r].activities[k]
       IN  (~IsNaN(a.start) /\ ~IsNaN(a.end) /\ UTCHours(a.end) < UTCHours(a.start))
             => drawCanvas(<<a>>) =
                  << [xStart |-> UTCHours(a.start), xEnd |-> MinutesPerDay,
                      y |-> statusY(a.status), strokeStyle |-> colors(a.status)],
                     [xStart |-> 0, xEnd |-> UTCHours(a.end),
                      y |-> statusY(a.status), strokeStyle |-> colors(a.status)] >>
  /\ \A i \in 1..Len(canvases): \A k \in 1..Len(canvases[i]):
       canvases[i][k].xEnd >= canvases[i][k].xStart

\* C3: the over-limit signal of the compliance summary (the red bar, the
\* 70-hour/8-day warning) is raised exactly when drive + on-duty hours exceed
\* 70.
C3_OverLimitSignal ==
  planResult.has =>
    LET v == ComplianceSummary
        over == v.totalDrive + v.totalOnDuty > DriveLimit
    IN  /\ (v.background = "#ff3333") <=> over
        /\ v.warnings = (IF over THEN <<W70>> ELSE <<>>)

\* C5: an activity whose status is not one of the four is rejected with an
\* UnknownStatus error and is not drawn in the lane of a valid status.
C5_UnknownStatusRejected ==
  \A i \in 1..Len(logDays): \A k \in 1..Len(heap[logDays[i]].activities):
    LET a == heap[logDays[i]].activities[k]
    IN  a.status \notin DutyStatus =>
          /\ \E m \in 1..Len(alerts): alerts[m] = "UnknownStatus"
          /\ \A j \in 1..Len(canvases[i]): canvases[i][j] # Stroke(a)

\* C6: as long as the parent holds the same planner result, the Day objects of
\* that result keep their activities.
C6_DaysOnlyRead ==
  [][planResult' = planResult =>
       \A i \in 1..Len(planResult.days):
         heap'[planResult.days[i]] = heap[planResult.days[i]]]_vars

\* The log sheets and cycle hours of the days the parent holds now.
ExpectedSheets ==
  [i \in 1..Len(planResult.days) |->
     [date |-> heap[planResult.days[i]].date,
      activities |-> Len(heap[planResult.days[i]].activities),
      canvas |-> drawCanvas(heap[planResult.days[i]].activities)]]

\* C7: once a planner result has arrived and every drawing has finished, the
\* log sheets and the cycle hours displayed are those of that result's days.
C7_NewTripDisplayed ==
  (LogCanvasMounted /\ ~loading /\ imageLoads = {}) =>
    /\ LogSheets = ExpectedSheets
    /\ currentCycleHours = CycleHours(planResult.days, 0)

\* C8: a saved document has one page per day of the export, the k-th page
\* written with the k-th day's date.
C8_OnePagePerDay ==
  \A d \in 1..Len(downloads):
    LET doc == downloads[d]
    IN  /\ Len(doc.pages) = Len(doc.days)
        /\ \A k \in 1..Len(doc.pages):
             /\ doc.pages[k].written
             /\ k <= Len(doc.days) => doc.pages[k].date = heap[doc.days[k]].date

\* C9: every page of a saved document carries the image and the totals its day
\* had when the export started.
C9_ExportSnapshot ==
  \A d \in 1..Len(downloads):
    LET doc == downloads[d]
    IN  \A k \in 1..Len(doc.pages):
          (doc.pages[k].written /\ k <= Len(doc.start)) =>
            /\ doc.pages[k].image = doc.start[k].image
            /\ doc.pages[k].driveHrs = doc.start[k].driveHrs
            /\ doc.pages[k].onDutyHrs = doc.start[k].onDutyHrs
            /\ doc.pages[k].offDutyHrs = doc.start[k].offDutyHrs

\* C4: an activity whose end is before its start is reported as an InvalidRange
\* error; the day lists never hold one unreported, left out of or clamped in
\* the totals.
C4_InvalidRangeRejected ==
  \A d \in 1..Len(mapLogDays): \A k \in 1..Len(mapLogDays[d].activities):
    LET a == mapLogDays[d].activities[k]
    IN  a.endHour < a.startHour =>
          \E m \in 1..Len(alerts): alerts[m] = "InvalidRange"

\* C10: while a route request is pending, no other request is started and no
\* edit is applied to the day list.
C10_NoEditWhilePending ==
  [][mapLoading =>
       /\ routeRequests' = routeRequests
       /\ mapLoading' => mapLogDays' = mapLogDays]_vars

\* The messages a failed planner request is surfaced with.
FailureMessages == {"Plan request failed", "Failed to generate trip."}

NonNegative(x) == ~IsNaN(x) /\ x >= 0

\* C12: every per-status total of every day, the totals of the trip and the
\* cycle hours are non-negative numbers.
C12_TotalsNonNegative ==
  /\ \A r \in 1..Len(heap): \A status \in DutyStatus:
       /\ NonNegative(calcTotalHours(heap[r].activities, status))
       /\ NonNegative(calcHours(heap[r].activities, status))
  /\ NonNegative(currentCycleHours)
  /\ planResult.has =>
       /\ NonNegative(ComplianceSummary.totalDrive)
       /\ NonNegative(ComplianceSummary.totalOnDuty)
       /\ NonNegative(ComplianceSummary.totalOffDuty)
  /\ \A d \in 1..Len(mapLogDays): \A status \in DutyStatus:
       NonNegative(mapCalcHours(mapLogDays[d].activities, status))

\* The sum over the days (references) of each day's total of the status.
TripTotal(days, status) ==
  SumOver(1..Len(days),
          [i \in 1..Len(days) |-> calcTotalHours(heap[days[i]].activities, status)])

\* C13: the cycle hours displayed are the sum over the days of the day's
\* Driving total plus its OnDuty total, and each total of the compliance
\* summary is the sum of that status's day totals.
C13_TripTotalsSumOfDays ==
  /\ currentCycleHours =
       NumAdd(TripTotal(logDays, "Driving"), TripTotal(logDays, "OnDuty"))
  /\ planResult.has =>
       /\ ComplianceSummary.totalDrive = ToFixed1(TripTotal(planResult.days, "Driving"))
       /\ ComplianceSummary.totalOnDuty = ToFixed1(TripTotal(planResult.days, "OnDuty"))
       /\ ComplianceSummary.totalOffDuty = ToFixed1(TripTotal(planResult.days, "OffDuty"))

\* C14: two documents saved for the same trip, in the same state, have the
\* same pages.
C14_ExportIdempotent ==
  /\ \A a \in 1..Len(downloads): \A b \in 1..Len(downloads):
       (downloads[a].days = downloads[b].days /\ downloads[a].start = downloads[b].start)
         => downloads[a].pages = downloads[b].pages
  /\ \A a \in 1..Len(mapDownloads): \A b \in 1..Len(mapDownloads):
       mapDownloads[a].days = mapDownloads[b].days
         => mapDownloads[a].pages = mapDownloads[b].pages

\* C15: a trip of zero days shows no sheet and no sidebar entry, has all-zero
\* totals and is saved as a document without pages; a day without activities
\* has all-zero totals and an empty canvas, and a trip of such days shows no
\* warning.
C15_EmptyTripEmptyDay ==
  /\ (planResult.has /\ planResult.hasDays /\ planResult.days = <<>>
        /\ ~loading /\ imageLoads = {}) =>
       /\ LogSheets = <<>>
       /\ DaySummarySidebar.entries = <<>>
       /\ currentCycleHours = 0
       /\ ComplianceSummary.totalDays = 0
       /\ ComplianceSummary.totalDrive = 0
       /\ ComplianceSummary.totalOnDuty = 0
       /\ ComplianceSummary.totalOffDuty = 0
  /\ \A d \in 1..Len(downloads):
       downloads[d].days = <<>> => downloads[d].pages = <<>>
  /\ \A r \in 1..Len(heap):
       heap[r].activities = <<>> =>
         /\ \A status \in DutyStatus:
              /\ calcTotalHours(heap[r].activities, status) = 0
              /\ calcHours(heap[r].activities, status) = 0
         /\ drawCanvas(heap[r].activities) = <<>>
  /\ (planResult.has /\ \A i \in 1..Len(planResult.days):
                          heap[planResult.days[i]].activities = <<>>) =>
       ComplianceSummary.warnings = <<>>

\* C16: the day list changes, apart from a mouse-down and a planner response,
\* only by a mouse-move during a drag, which sets the endHour of the last
\* interval of the day under the pointer; and every mouse-move handled during a
\* drag finds an interval on its day and ends without an exception.
C16_MoveExtendsOwnInterval ==
  [][/\ (mapLogDays' # mapLogDays /\ strokes' = strokes /\ mapLoading' = mapLoading) =>
          /\ isDrawing
          /\ pointerOver # 0
          /\ mapLogDays[pointerOver].activities # <<>>
          /\ \E x \in MouseX:
               mapLogDays' =
                 [mapLogDays EXCEPT
                    ![pointerOver].activities[Len(mapLogDays[pointerOver].activities)].endHour =
                      MouseHour(x)]
     /\ \A dayIdx \in 1..2: \A x \in MouseX:
          handleMouseMove(dayIdx, x) =>
            (mapLogDays[dayIdx].activities # <<>> /\ ~mapCrashed')]_vars

\* C17: the tracker's elapsed and remaining hours are numbers between 0 and 70
\* that add up to 70.
C17_TrackerRange ==
  /\ ~IsNaN(realTime.elapsed) /\ ~IsNaN(realTime.remaining)
  /\ 0 <= realTime.elapsed /\ realTime.elapsed <= CycleLimit
  /\ 0 <= realTime.remaining /\ realTime.remaining <= CycleLimit
  /\ realTime.elapsed + realTime.remaining = CycleLimit

\* The statuses of the four quarter-height bands, top to bottom.
Bands == <<"OnDuty", "Driving", "Sleeper", "OffDuty">>

\* C18: a click appends one activity to the day clicked and changes no other
\* day; the activity starts on the hour clicked, lasts one hour, has the status
\* of the band clicked and is drawn as one forward line in that status's lane.
C18_ClickAddsOneHour ==
  [][clicks' # clicks =>
       \E d \in 1..Len(logDays):
         LET r == logDays[d]
             a == heap'[r].activities[Len(heap'[r].activities)]
         IN  /\ heap'[r].activities = Append(heap[r].activities, a)
             /\ Len(heap') = Len(heap)
             /\ \A q \in 1..Len(heap): q # r => heap'[q] = heap[q]
             /\ ~IsNaN(a.start) /\ ~IsNaN(a.end)
             /\ \E p \in ClickPoints:
                  /\ a.start = ((p.x * 24) \div CanvasWidth) * 60
                  /\ a.status = Bands[((p.y * 4) \div CanvasHeight) + 1]
             /\ a.end > a.start
             /\ a.end - a.start = 60
             /\ Len(drawCanvas(<<a>>)) = 1
             /\ drawCanvas(<<a>>)[1].xEnd > drawCanvas(<<a>>)[1].xStart
             /\ drawCanvas(<<a>>)[1].y = statusY(a.status)]_vars

====
